---------------------------- MODULE Spec2Model ----------------------------
(***************************************************************************)
(* State-machine model of klippy/extras/pin_watch.py (class PinWatch).     *)
(*                                                                         *)
(* Every reactor callback of the module (pin callback, compute timer,      *)
(* toolchanger retry timer) is one atomic action: Klipper's reactor runs   *)
(* callbacks one at a time on a single greenlet.  The environment (time,   *)
(* print_stats.state, toolchanger.status) moves in separate actions.       *)
(*                                                                         *)
(* Time is counted in ticks of 0.1 s.  A timer registered with the reactor *)
(* is kept as the time that remains until its waketime; it may fire once   *)
(* that time is zero.  Only armed timers are kept: a callback that returns *)
(* reactor.NEVER is never woken again.                                     *)
(*                                                                         *)
(* Labels ("e", "t0", ...) are sequences of characters so that             *)
(* _parse_t_index and the "t%d" formatting are computed, not assumed.  An  *)
(* ASCII character is a one-character string, any other character is the   *)
(* string of its code point ("U+00A0").                                    *)
(* Optional values (None / a value) are <<>> / <<v>>.                      *)
(***************************************************************************)
EXTENDS Integers, Sequences, FiniteSets, TLC

VARIABLES
    pins,              \* config: the labels of the pin_<label> options
    sync_toolchanger,  \* config: self.sync_toolchanger
    assign_delay,      \* config: self.assign_delay, in ticks
    t_indices,         \* self.t_indices: the bay indices __init__ read from the labels
    state,             \* self.state: label -> int
    current_tool,      \* self.current_tool
    compute_timer,     \* self._compute_timer: handle of a reactor timer or None
    pending_reason,    \* self._pending_reason
    pending_tc_ct,     \* self._pending_tc_ct
    tc_timer,          \* self._tc_timer: handle of a reactor timer or None
    timers,            \* the reactor's armed timers: records [id, cb, rem]
    print_stats,       \* printer object "print_stats": "absent" or its .state
    toolchanger,       \* printer object <toolchanger_name>: "absent" or its .status
    out,               \* lines given to gcode.run_script_from_command in the last step
    op,                \* which handler ran in the last step
    failed,            \* whether run_script_from_command raised in the last step
    last_decision,     \* while a target is pending, and in the step that sends
                       \* it: the newest call of _sync_toolchanger_or_defer as
                       \* [ct, deferred]
    burst,             \* value-changing edges since the last inference pass (saturating)
    coalesced,         \* the number of edges the pass of the last step answered
    status             \* what get_status returned in the last step, None if
                       \* it was not called

vars == <<pins, sync_toolchanger, assign_delay, t_indices, state, current_tool,
          compute_timer, pending_reason, pending_tc_ct, tc_timer, timers,
          print_stats, toolchanger, out, op, failed, last_decision,
          burst, coalesced, status>>

config == <<pins, sync_toolchanger, assign_delay, t_indices>>
observed == <<last_decision, burst>>

----------------------------------------------------------------------------
(* Bounds of the model *)

\* highest bay index a configuration may name
MaxBay == 0
\* largest assign_delay, in ticks
MaxDelay == 1
\* the edge counters saturate here
MaxBurst == 2

\* reactor.monotonic() + 0.1, in ticks of 0.1 s
RetryTicks == 1

None == <<>>
Some(v) == <<v>>
Val(o) == o[1]

Min(a, b) == IF a < b THEN a ELSE b
Max(a, b) == IF a > b THEN a ELSE b

SetMin(S) == CHOOSE m \in S : \A x \in S : m <= x

----------------------------------------------------------------------------
(* Labels *)

Digits == <<"0", "1", "2", "3", "4", "5", "6", "7", "8", "9">>

\* A character outside ASCII is written by its code point: "U+0661" is the
\* one character ARABIC-INDIC DIGIT ONE.  int() reads every Unicode decimal
\* digit as its value: these are the digits 0..9 of each decimal script
\* (Unicode 14.0), one row per script.
UnicodeDigitRows == {
    <<"U+0660", "U+0661", "U+0662", "U+0663", "U+0664", "U+0665", "U+0666", "U+0667", "U+0668", "U+0669">>,
    <<"U+06F0", "U+06F1", "U+06F2", "U+06F3", "U+06F4", "U+06F5", "U+06F6", "U+06F7", "U+06F8", "U+06F9">>,
    <<"U+07C0", "U+07C1", "U+07C2", "U+07C3", "U+07C4", "U+07C5", "U+07C6", "U+07C7", "U+07C8", "U+07C9">>,
    <<"U+0966", "U+0967", "U+0968", "U+0969", "U+096A", "U+096B", "U+096C", "U+096D", "U+096E", "U+096F">>,
    <<"U+09E6", "U+09E7", "U+09E8", "U+09E9", "U+09EA", "U+09EB", "U+09EC", "U+09ED", "U+09EE", "U+09EF">>,
    <<"U+0A66", "U+0A67", "U+0A68", "U+0A69", "U+0A6A", "U+0A6B", "U+0A6C", "U+0A6D", "U+0A6E", "U+0A6F">>,
    <<"U+0AE6", "U+0AE7", "U+0AE8", "U+0AE9", "U+0AEA", "U+0AEB", "U+0AEC", "U+0AED", "U+0AEE", "U+0AEF">>,
    <<"U+0B66", "U+0B67", "U+0B68", "U+0B69", "U+0B6A", "U+0B6B", "U+0B6C", "U+0B6D", "U+0B6E", "U+0B6F">>,
    <<"U+0BE6", "U+0BE7", "U+0BE8", "U+0BE9", "U+0BEA", "U+0BEB", "U+0BEC", "U+0BED", "U+0BEE", "U+0BEF">>,
    <<"U+0C66", "U+0C67", "U+0C68", "U+0C69", "U+0C6A", "U+0C6B", "U+0C6C", "U+0C6D", "U+0C6E", "U+0C6F">>,
    <<"U+0CE6", "U+0CE7", "U+0CE8", "U+0CE9", "U+0CEA", "U+0CEB", "U+0CEC", "U+0CED", "U+0CEE", "U+0CEF">>,
    <<"U+0D66", "U+0D67", "U+0D68", "U+0D69", "U+0D6A", "U+0D6B", "U+0D6C", "U+0D6D", "U+0D6E", "U+0D6F">>,
    <<"U+0DE6", "U+0DE7", "U+0DE8", "U+0DE9", "U+0DEA", "U+0DEB", "U+0DEC", "U+0DED", "U+0DEE", "U+0DEF">>,
    <<"U+0E50", "U+0E51", "U+0E52", "U+0E53", "U+0E54", "U+0E55", "U+0E56", "U+0E57", "U+0E58", "U+0E59">>,
    <<"U+0ED0", "U+0ED1", "U+0ED2", "U+0ED3", "U+0ED4", "U+0ED5", "U+0ED6", "U+0ED7", "U+0ED8", "U+0ED9">>,
    <<"U+0F20", "U+0F21", "U+0F22", "U+0F23", "U+0F24", "U+0F25", "U+0F26", "U+0F27", "U+0F28", "U+0F29">>,
    <<"U+1040", "U+1041", "U+1042", "U+1043", "U+1044", "U+1045", "U+1046", "U+1047", "U+1048", "U+1049">>,
    <<"U+1090", "U+1091", "U+1092", "U+1093", "U+1094", "U+1095", "U+1096", "U+1097", "U+1098", "U+1099">>,
    <<"U+17E0", "U+17E1", "U+17E2", "U+17E3", "U+17E4", "U+17E5", "U+17E6", "U+17E7", "U+17E8", "U+17E9">>,
    <<"U+1810", "U+1811", "U+1812", "U+1813", "U+1814", "U+1815", "U+1816", "U+1817", "U+1818", "U+1819">>,
    <<"U+1946", "U+1947", "U+1948", "U+1949", "U+194A", "U+194B", "U+194C", "U+194D", "U+194E", "U+194F">>,
    <<"U+19D0", "U+19D1", "U+19D2", "U+19D3", "U+19D4", "U+19D5", "U+19D6", "U+19D7", "U+19D8", "U+19D9">>,
    <<"U+1A80", "U+1A81", "U+1A82", "U+1A83", "U+1A84", "U+1A85", "U+1A86", "U+1A87", "U+1A88", "U+1A89">>,
    <<"U+1A90", "U+1A91", "U+1A92", "U+1A93", "U+1A94", "U+1A95", "U+1A96", "U+1A97", "U+1A98", "U+1A99">>,
    <<"U+1B50", "U+1B51", "U+1B52", "U+1B53", "U+1B54", "U+1B55", "U+1B56", "U+1B57", "U+1B58", "U+1B59">>,
    <<"U+1BB0", "U+1BB1", "U+1BB2", "U+1BB3", "U+1BB4", "U+1BB5", "U+1BB6", "U+1BB7", "U+1BB8", "U+1BB9">>,
    <<"U+1C40", "U+1C41", "U+1C42", "U+1C43", "U+1C44", "U+1C45", "U+1C46", "U+1C47", "U+1C48", "U+1C49">>,
    <<"U+1C50", "U+1C51", "U+1C52", "U+1C53", "U+1C54", "U+1C55", "U+1C56", "U+1C57", "U+1C58", "U+1C59">>,
    <<"U+A620", "U+A621", "U+A622", "U+A623", "U+A624", "U+A625", "U+A626", "U+A627", "U+A628", "U+A629">>,
    <<"U+A8D0", "U+A8D1", "U+A8D2", "U+A8D3", "U+A8D4", "U+A8D5", "U+A8D6", "U+A8D7", "U+A8D8", "U+A8D9">>,
    <<"U+A900", "U+A901", "U+A902", "U+A903", "U+A904", "U+A905", "U+A906", "U+A907", "U+A908", "U+A909">>,
    <<"U+A9D0", "U+A9D1", "U+A9D2", "U+A9D3", "U+A9D4", "U+A9D5", "U+A9D6", "U+A9D7", "U+A9D8", "U+A9D9">>,
    <<"U+A9F0", "U+A9F1", "U+A9F2", "U+A9F3", "U+A9F4", "U+A9F5", "U+A9F6", "U+A9F7", "U+A9F8", "U+A9F9">>,
    <<"U+AA50", "U+AA51", "U+AA52", "U+AA53", "U+AA54", "U+AA55", "U+AA56", "U+AA57", "U+AA58", "U+AA59">>,
    <<"U+ABF0", "U+ABF1", "U+ABF2", "U+ABF3", "U+ABF4", "U+ABF5", "U+ABF6", "U+ABF7", "U+ABF8", "U+ABF9">>,
    <<"U+FF10", "U+FF11", "U+FF12", "U+FF13", "U+FF14", "U+FF15", "U+FF16", "U+FF17", "U+FF18", "U+FF19">>,
    <<"U+104A0", "U+104A1", "U+104A2", "U+104A3", "U+104A4", "U+104A5", "U+104A6", "U+104A7", "U+104A8", "U+104A9">>,
    <<"U+10D30", "U+10D31", "U+10D32", "U+10D33", "U+10D34", "U+10D35", "U+10D36", "U+10D37", "U+10D38", "U+10D39">>,
    <<"U+11066", "U+11067", "U+11068", "U+11069", "U+1106A", "U+1106B", "U+1106C", "U+1106D", "U+1106E", "U+1106F">>,
    <<"U+110F0", "U+110F1", "U+110F2", "U+110F3", "U+110F4", "U+110F5", "U+110F6", "U+110F7", "U+110F8", "U+110F9">>,
    <<"U+11136", "U+11137", "U+11138", "U+11139", "U+1113A", "U+1113B", "U+1113C", "U+1113D", "U+1113E", "U+1113F">>,
    <<"U+111D0", "U+111D1", "U+111D2", "U+111D3", "U+111D4", "U+111D5", "U+111D6", "U+111D7", "U+111D8", "U+111D9">>,
    <<"U+112F0", "U+112F1", "U+112F2", "U+112F3", "U+112F4", "U+112F5", "U+112F6", "U+112F7", "U+112F8", "U+112F9">>,
    <<"U+11450", "U+11451", "U+11452", "U+11453", "U+11454", "U+11455", "U+11456", "U+11457", "U+11458", "U+11459">>,
    <<"U+114D0", "U+114D1", "U+114D2", "U+114D3", "U+114D4", "U+114D5", "U+114D6", "U+114D7", "U+114D8", "U+114D9">>,
    <<"U+11650", "U+11651", "U+11652", "U+11653", "U+11654", "U+11655", "U+11656", "U+11657", "U+11658", "U+11659">>,
    <<"U+116C0", "U+116C1", "U+116C2", "U+116C3", "U+116C4", "U+116C5", "U+116C6", "U+116C7", "U+116C8", "U+116C9">>,
    <<"U+11730", "U+11731", "U+11732", "U+11733", "U+11734", "U+11735", "U+11736", "U+11737", "U+11738", "U+11739">>,
    <<"U+118E0", "U+118E1", "U+118E2", "U+118E3", "U+118E4", "U+118E5", "U+118E6", "U+118E7", "U+118E8", "U+118E9">>,
    <<"U+11950", "U+11951", "U+11952", "U+11953", "U+11954", "U+11955", "U+11956", "U+11957", "U+11958", "U+11959">>,
    <<"U+11C50", "U+11C51", "U+11C52", "U+11C53", "U+11C54", "U+11C55", "U+11C56", "U+11C57", "U+11C58", "U+11C59">>,
    <<"U+11D50", "U+11D51", "U+11D52", "U+11D53", "U+11D54", "U+11D55", "U+11D56", "U+11D57", "U+11D58", "U+11D59">>,
    <<"U+11DA0", "U+11DA1", "U+11DA2", "U+11DA3", "U+11DA4", "U+11DA5", "U+11DA6", "U+11DA7", "U+11DA8", "U+11DA9">>,
    <<"U+16A60", "U+16A61", "U+16A62", "U+16A63", "U+16A64", "U+16A65", "U+16A66", "U+16A67", "U+16A68", "U+16A69">>,
    <<"U+16AC0", "U+16AC1", "U+16AC2", "U+16AC3", "U+16AC4", "U+16AC5", "U+16AC6", "U+16AC7", "U+16AC8", "U+16AC9">>,
    <<"U+16B50", "U+16B51", "U+16B52", "U+16B53", "U+16B54", "U+16B55", "U+16B56", "U+16B57", "U+16B58", "U+16B59">>,
    <<"U+1D7CE", "U+1D7CF", "U+1D7D0", "U+1D7D1", "U+1D7D2", "U+1D7D3", "U+1D7D4", "U+1D7D5", "U+1D7D6", "U+1D7D7">>,
    <<"U+1D7D8", "U+1D7D9", "U+1D7DA", "U+1D7DB", "U+1D7DC", "U+1D7DD", "U+1D7DE", "U+1D7DF", "U+1D7E0", "U+1D7E1">>,
    <<"U+1D7E2", "U+1D7E3", "U+1D7E4", "U+1D7E5", "U+1D7E6", "U+1D7E7", "U+1D7E8", "U+1D7E9", "U+1D7EA", "U+1D7EB">>,
    <<"U+1D7EC", "U+1D7ED", "U+1D7EE", "U+1D7EF", "U+1D7F0", "U+1D7F1", "U+1D7F2", "U+1D7F3", "U+1D7F4", "U+1D7F5">>,
    <<"U+1D7F6", "U+1D7F7", "U+1D7F8", "U+1D7F9", "U+1D7FA", "U+1D7FB", "U+1D7FC", "U+1D7FD", "U+1D7FE", "U+1D7FF">>,
    <<"U+1E140", "U+1E141", "U+1E142", "U+1E143", "U+1E144", "U+1E145", "U+1E146", "U+1E147", "U+1E148", "U+1E149">>,
    <<"U+1E2F0", "U+1E2F1", "U+1E2F2", "U+1E2F3", "U+1E2F4", "U+1E2F5", "U+1E2F6", "U+1E2F7", "U+1E2F8", "U+1E2F9">>,
    <<"U+1E950", "U+1E951", "U+1E952", "U+1E953", "U+1E954", "U+1E955", "U+1E956", "U+1E957", "U+1E958", "U+1E959">>,
    <<"U+1FBF0", "U+1FBF1", "U+1FBF2", "U+1FBF3", "U+1FBF4", "U+1FBF5", "U+1FBF6", "U+1FBF7", "U+1FBF8", "U+1FBF9">>}

UnicodeDigits == UNION {{r[k] : k \in 1..10} : r \in UnicodeDigitRows}

IsAsciiDigit(c) == \E d \in 0..9 : Digits[d + 1] = c
IsDigit(c) == IsAsciiDigit(c) \/ c \in UnicodeDigits
DigitValue(c) ==
    IF IsAsciiDigit(c) THEN CHOOSE d \in 0..9 : Digits[d + 1] = c
    ELSE CHOOSE d \in 0..9 : \E r \in UnicodeDigitRows : r[d + 1] = c

\* "%d" % i for i >= 0
RECURSIVE Decimal(_)
Decimal(i) == IF i < 10 THEN <<Digits[i + 1]>>
              ELSE Decimal(i \div 10) \o <<Digits[(i % 10) + 1]>>

\* "t%d" % i
BayLabel(i) == <<"t">> \o Decimal(i)

\* the values of the digits of a text of digits
DigitValues(s) == [k \in 1..Len(s) |-> DigitValue(s[k])]

\* digit values without the leading zeros (they add nothing to the value,
\* however many they are)
Significant(ds) ==
    IF ds = <<>> \/ ds[1] # 0 THEN ds
    ELSE LET nonzero == {k \in 1..Len(ds) : ds[k] # 0}
         IN IF nonzero = {} THEN <<>> ELSE SubSeq(ds, SetMin(nonzero), Len(ds))

\* the number written by digit values, the first of them not zero
RECURSIVE PlaceValue(_)
PlaceValue(ds) == IF ds = <<>> THEN 0
                  ELSE 10 * PlaceValue(SubSeq(ds, 1, Len(ds) - 1)) + ds[Len(ds)]

\* the value of a text of digits
DigitsValue(s) == PlaceValue(Significant(DigitValues(s)))

\* the whitespace int() skips outside ASCII (no-break space, the widths of
\* space, line and paragraph separators, ...)
UnicodeWhitespace == {
    "U+0085", "U+00A0", "U+1680", "U+2000", "U+2001", "U+2002", "U+2003",
    "U+2004", "U+2005", "U+2006", "U+2007", "U+2008", "U+2009", "U+200A",
    "U+2028", "U+2029", "U+202F", "U+205F", "U+3000"}

\* the characters int() skips at either end of its text: space, tab, line
\* feed, carriage return, form feed, the vertical tab (0x0B, which has no
\* escape and stands in its string as itself) and the Unicode whitespace
Whitespace == {" ", "\t", "\n", "\r", "\f", ""} \cup UnicodeWhitespace

\* the text from its first character that is no whitespace
StripLeft(s) ==
    IF s = <<>> \/ s[1] \notin Whitespace THEN s
    ELSE LET inner == {k \in 1..Len(s) : s[k] \notin Whitespace}
         IN IF inner = {} THEN <<>> ELSE SubSeq(s, SetMin(inner), Len(s))

\* the text up to its last character that is no whitespace (the one
\* nearest to the end)
StripRight(s) ==
    IF s = <<>> \/ s[Len(s)] \notin Whitespace THEN s
    ELSE LET inner == {k \in 1..Len(s) : s[k] \notin Whitespace}
         IN IF inner = {} THEN <<>>
            ELSE SubSeq(s, 1, Len(s) - SetMin({Len(s) - k : k \in inner}))

\* the digit part of a decimal literal: digits, with single underscores
\* between digits
DecimalText(s) ==
    /\ s # <<>>
    /\ s[1] # "_" /\ s[Len(s)] # "_"
    /\ \A k \in 1..Len(s) : IsDigit(s[k]) \/ s[k] = "_"
    /\ \A k \in 1..(Len(s) - 1) : ~(s[k] = "_" /\ s[k + 1] = "_")

\* the most digits int() converts (CPython's default limit on the
\* conversion of a decimal text); underscores, sign and whitespace do not
\* count, leading zeros do
MaxStrDigits == 4300

\* the value of the digits of a decimal literal, None (ValueError) when
\* they are more than MaxStrDigits.  The value is an integer of the model,
\* so a bay index is below 2^31.
LimitedValue(digits) ==
    IF Len(digits) > MaxStrDigits THEN None ELSE Some(DigitsValue(digits))

\* the value of a text without sign, None for ValueError
DecimalValue(u) ==
    IF DecimalText(u) THEN LimitedValue(SelectSeq(u, IsDigit)) ELSE None

\* a text without its sign, if it starts with one
Unsigned(b) == IF b # <<>> /\ b[1] \in {"+", "-"} THEN Tail(b) ELSE b

\* the value r of the unsigned part of b, with the sign of b
WithSign(b, r) ==
    IF r # None /\ b # <<>> /\ b[1] = "-" THEN Some(0 - Val(r)) ELSE r

\* the value of a text without whitespace around it
SignedValue(b) == WithSign(b, DecimalValue(Unsigned(b)))

\* int(text) for a str: whitespace at either end is skipped, then an
\* optional sign and a decimal literal of at most MaxStrDigits digits; None
\* for ValueError
ParseInt(s) == SignedValue(StripRight(StripLeft(s)))

ParseTIndex(label) ==
    IF label = <<>> \/ label[1] # "t" THEN None
    ELSE ParseInt(Tail(label))

\* self.t_indices as __init__ fills it from the labels ps
TIndices(ps) ==
    UNION {LET ti == ParseTIndex(l) IN IF ti = None THEN {} ELSE {Val(ti)} : l \in ps}

SetMax(S) == CHOOSE m \in S : \A x \in S : x <= m

\* _tool_count, reading self.t_indices = ti
ToolCount(ti) == IF ti = {} THEN 0 ELSE SetMax(ti) + 1

\* self.state.get(label, 0)
Get(st, label) == IF label \in DOMAIN st THEN st[label] ELSE 0

----------------------------------------------------------------------------
(* The inference function *)

Bit(v) == v \in {0, 1}

\* the loop with the empty bay counted from one
RECURSIVE ScanBays_FromOne(_, _, _, _)
ScanBays_FromOne(st, i, N, acc) ==
    IF i >= N THEN acc
    ELSE LET occ == Get(st, BayLabel(i))
         IN ScanBays_FromOne(st, i + 1, N,
                [S         |-> acc.S + occ,
                 empties   |-> IF occ = 0 THEN acc.empties + 1 ELSE acc.empties,
                 empty_idx |-> IF occ = 0 THEN i + 1 ELSE acc.empty_idx,
                 bad       |-> IF Bit(occ) THEN acc.bad ELSE 1])

\* the body of "for i in range(N)", from bay i on
RECURSIVE ScanBays(_, _, _, _)
ScanBays(st, i, N, acc) ==
    IF i >= N THEN acc
    ELSE LET occ == Get(st, BayLabel(i))
         IN ScanBays(st, i + 1, N,
                [S         |-> acc.S + occ,
                 empties   |-> IF occ = 0 THEN acc.empties + 1 ELSE acc.empties,
                 empty_idx |-> IF occ = 0 THEN i ELSE acc.empty_idx,
                 bad       |-> IF Bit(occ) THEN acc.bad ELSE 1])

\* _compute_current_tool without the validity flag
ComputeCurrentTool_NoBadCheck(st, ti) ==
    LET N == ToolCount(ti)
    IN IF N < 1
       THEN [ct |-> -2, N |-> N, ex |-> 0, S |-> 0, empties |-> 0, bad |-> 1]
       ELSE LET ex  == Get(st, <<"e">>)
                acc == ScanBays(st, 0, N,
                           [S |-> 0, empties |-> 0, empty_idx |-> -1, bad |-> 0])
                ct  == IF ex = 0 /\ acc.S = N THEN -1
                       ELSE IF ex = 1 /\ acc.S = N - 1 /\ acc.empties = 1
                            THEN acc.empty_idx
                       ELSE -2
            IN [ct |-> ct, N |-> N, ex |-> ex, S |-> acc.S,
                empties |-> acc.empties, bad |-> acc.bad]

\* _compute_current_tool: the tool and the debug tuple (ex, S, empties are
\* None in the tuple of the N < 1 return; they are not read in the model)
ComputeCurrentTool(st, ti) ==
    LET N == ToolCount(ti)
    IN IF N < 1
       THEN [ct |-> -2, N |-> N, ex |-> 0, S |-> 0, empties |-> 0, bad |-> 1]
       ELSE LET ex  == Get(st, <<"e">>)
                acc == ScanBays(st, 0, N,
                           [S |-> 0, empties |-> 0, empty_idx |-> -1,
                            bad |-> IF Bit(ex) THEN 0 ELSE 1])
                ct  == IF acc.bad = 1 THEN -2
                       ELSE IF ex = 0 /\ acc.S = N THEN -1
                       ELSE IF ex = 1 /\ acc.S = N - 1 /\ acc.empties = 1
                            THEN acc.empty_idx
                       ELSE -2
            IN [ct |-> ct, N |-> N, ex |-> ex, S |-> acc.S,
                empties |-> acc.empties, bad |-> acc.bad]

----------------------------------------------------------------------------
(* The reactor *)

\* the handle register_timer returns: a timer object apart from every armed
\* one (the first number not in use among the timers of the callback)
FreeId(T, cb) ==
    LET used == {t.id : t \in {x \in T : x.cb = cb}}
    IN CHOOSE i \in 0..Cardinality(used) :
           i \notin used /\ \A j \in 0..(i - 1) : j \in used

RegisterTimer(T, cb, delay) ==
    T \cup {[id |-> FreeId(T, cb), cb |-> cb, rem |-> delay]}

\* a handle is the callback and the number of the timer
UnregisterTimer(T, h) == {t \in T : <<t.cb, t.id>> # h}

----------------------------------------------------------------------------
(* External status providers *)

BUSY_STATUSES == {"changing", "initializing"}

\* _toolchanger_busy that takes a missing tool-changer for a busy one
ToolchangerBusy_AbsentIsBusy == toolchanger = "absent" \/ toolchanger \in BUSY_STATUSES

\* _toolchanger_busy: lookup_object(name, None), then getattr(tc, "status", None)
ToolchangerBusy == toolchanger # "absent" /\ toolchanger \in BUSY_STATUSES

\* _is_printing
IsPrinting == print_stats # "absent" /\ print_stats = "printing"

----------------------------------------------------------------------------
(* Toolchanger sync.  The operators return what the call leaves behind:    *)
(* pending = _pending_tc_ct, handle = _tc_timer, timers = the reactor's    *)
(* timers, out = the lines run, decided = the target given to              *)
(* _sync_toolchanger_or_defer (None when it was not called).               *)

InitCmd(ct) == <<"INITIALIZE_TOOLCHANGER T=", ct>>
UnselectCmd == <<"UNSELECT_TOOL">>

\* _do_toolchanger_sync that unselects for -1 only
DoToolchangerSync_UnknownSilent(ct) ==
    IF ct >= 0 THEN <<InitCmd(ct)>> ELSE IF ct = -1 THEN <<UnselectCmd>> ELSE <<>>

\* _do_toolchanger_sync: the lines given to _run_cmd
DoToolchangerSync(ct) == IF ct >= 0 THEN <<InitCmd(ct)>> ELSE <<UnselectCmd>>

NoSync(T) == [pending |-> pending_tc_ct, handle |-> tc_timer, timers |-> T,
              out |-> <<>>, decided |-> None]

\* _sync_toolchanger_or_defer without the busy check
SyncToolchangerOrDefer_NoBusyCheck(ct, T) ==
    [pending |-> pending_tc_ct, handle |-> tc_timer, timers |-> T,
     out     |-> DoToolchangerSync(ct),
     decided |-> Some([ct |-> ct, deferred |-> FALSE])]

\* _sync_toolchanger_or_defer that arms a retry timer at every deferral
SyncToolchangerOrDefer_AlwaysArm(ct, T) ==
    IF ToolchangerBusy
    THEN [pending |-> Some(ct),
          handle  |-> Some(<<"tc", FreeId(T, "tc")>>),
          timers  |-> RegisterTimer(T, "tc", RetryTicks),
          out     |-> <<>>,
          decided |-> Some([ct |-> ct, deferred |-> TRUE])]
    ELSE [pending |-> pending_tc_ct, handle |-> tc_timer, timers |-> T,
          out     |-> DoToolchangerSync(ct),
          decided |-> Some([ct |-> ct, deferred |-> FALSE])]

\* _sync_toolchanger_or_defer that defers without a timer
SyncToolchangerOrDefer_NoTimer(ct, T) ==
    IF ToolchangerBusy
    THEN [pending |-> Some(ct), handle |-> tc_timer, timers |-> T,
          out     |-> <<>>,
          decided |-> Some([ct |-> ct, deferred |-> TRUE])]
    ELSE [pending |-> pending_tc_ct, handle |-> tc_timer, timers |-> T,
          out     |-> DoToolchangerSync(ct),
          decided |-> Some([ct |-> ct, deferred |-> FALSE])]

\* _sync_toolchanger_or_defer: if busy, defer with a timer
SyncToolchangerOrDefer(ct, T) ==
    IF ToolchangerBusy
    THEN [pending |-> Some(ct),
          handle  |-> IF tc_timer = None THEN Some(<<"tc", FreeId(T, "tc")>>) ELSE tc_timer,
          timers  |-> IF tc_timer = None THEN RegisterTimer(T, "tc", RetryTicks) ELSE T,
          out     |-> <<>>,
          decided |-> Some([ct |-> ct, deferred |-> TRUE])]
    ELSE [pending |-> pending_tc_ct, handle |-> tc_timer, timers |-> T,
          out     |-> DoToolchangerSync(ct),
          decided |-> Some([ct |-> ct, deferred |-> FALSE])]

RequestToolchangerSync(ct, T) ==
    IF IsPrinting
    THEN IF ct >= 0 THEN SyncToolchangerOrDefer(ct, T) ELSE NoSync(T)
    ELSE SyncToolchangerOrDefer(ct, T)

\* _tc_timer_cb that gives up when the toolchanger is still busy
TcTimerCb_NoRearm(T) ==
    IF pending_tc_ct = None \/ ToolchangerBusy
    THEN [pending |-> pending_tc_ct, handle |-> None, timers |-> T, out |-> <<>>]
    ELSE [pending |-> None, handle |-> None, timers |-> T,
          out |-> DoToolchangerSync(Val(pending_tc_ct))]

\* _tc_timer_cb that sends the pending target at every poll, busy or not,
\* and keeps polling while busy
TcTimerCb_ResendWhileBusy(T) ==
    IF pending_tc_ct = None
    THEN [pending |-> None, handle |-> None, timers |-> T, out |-> <<>>]
    ELSE IF ToolchangerBusy
    THEN [pending |-> pending_tc_ct, handle |-> Some(<<"tc", FreeId(T, "tc")>>),
          timers |-> RegisterTimer(T, "tc", RetryTicks),
          out |-> DoToolchangerSync(Val(pending_tc_ct))]
    ELSE [pending |-> None, handle |-> None, timers |-> T,
          out |-> DoToolchangerSync(Val(pending_tc_ct))]

\* _tc_timer_cb that keeps the target and the timer after sending
TcTimerCb_PollsForever(T) ==
    IF pending_tc_ct = None
    THEN [pending |-> None, handle |-> None, timers |-> T, out |-> <<>>]
    ELSE [pending |-> pending_tc_ct, handle |-> Some(<<"tc", FreeId(T, "tc")>>),
          timers |-> RegisterTimer(T, "tc", RetryTicks),
          out |-> IF ToolchangerBusy THEN <<>>
                  ELSE DoToolchangerSync(Val(pending_tc_ct))]

\* _tc_timer_cb after "self._tc_timer = None"; T is the reactor's timers
\* without the one that fired
TcTimerCb(T) ==
    IF pending_tc_ct = None
    THEN [pending |-> None, handle |-> None, timers |-> T, out |-> <<>>]
    ELSE IF ToolchangerBusy
    THEN [pending |-> pending_tc_ct, handle |-> Some(<<"tc", FreeId(T, "tc")>>),
          timers |-> RegisterTimer(T, "tc", RetryTicks), out |-> <<>>]
    ELSE [pending |-> None, handle |-> None, timers |-> T,
          out |-> DoToolchangerSync(Val(pending_tc_ct))]

----------------------------------------------------------------------------
(* What the model records about the run *)

\* a step that is no inference pass leaves the record of decisions as it is
\* while a target is pending, and drops it otherwise
KeepDecision ==
    last_decision' = IF pending_tc_ct = None THEN None ELSE last_decision

\* an inference pass whose sync left d
NoteDecision(d) ==
    IF d.decided = None \/ d.pending = None
    THEN IF d.pending = None THEN None ELSE last_decision
    ELSE d.decided

\* a step of the environment: no handler ran
EnvStep ==
    /\ op' = "env" /\ out' = <<>> /\ failed' = FALSE /\ coalesced' = 0
    /\ status' = None
    /\ KeepDecision
    /\ UNCHANGED <<config, state, current_tool, compute_timer, pending_reason,
                   pending_tc_ct, tc_timer, burst>>

----------------------------------------------------------------------------
(* Handlers *)

\* _schedule_compute without the cancellation of the armed timer
ScheduleCompute_NoCancel(reason, delay) ==
    /\ pending_reason' = reason
    /\ compute_timer' = Some(<<"compute", FreeId(timers, "compute")>>)
    /\ timers' = RegisterTimer(timers, "compute", Max(0, delay))

\* _schedule_compute
ScheduleCompute(reason, delay) ==
    LET T == IF compute_timer # None
             THEN UnregisterTimer(timers, Val(compute_timer))
             ELSE timers
    IN /\ pending_reason' = reason
       /\ compute_timer' = Some(<<"compute", FreeId(T, "compute")>>)
       /\ timers' = RegisterTimer(T, "compute", Max(0, delay))

\* the values the buttons module delivers
PinValues == {0, 1}

\* the callback without the early return for an unchanged value
PinCallback_NoDupCheck(label, s) ==
    /\ op' = IF Get(state, label) = s THEN "cb_dup" ELSE "cb"
    /\ state' = [state EXCEPT ![label] = s]
    /\ ScheduleCompute(label, assign_delay)
    /\ burst' = Min(MaxBurst, burst + 1)

\* the callback that stores the value and asks for no recomputation
PinCallback_NoSchedule(label, s) ==
    IF Get(state, label) = s
    THEN /\ op' = "cb_dup"
         /\ UNCHANGED <<state, pending_reason, compute_timer, timers, burst>>
    ELSE /\ op' = "cb"
         /\ state' = [state EXCEPT ![label] = s]
         /\ UNCHANGED <<pending_reason, compute_timer, timers>>
         /\ burst' = Min(MaxBurst, burst + 1)

\* the callback _make_callback(label) returns, called with state s
PinCallback(label, s) ==
    IF Get(state, label) = s
    THEN /\ op' = "cb_dup"
         /\ UNCHANGED <<state, pending_reason, compute_timer, timers, burst>>
    ELSE /\ op' = "cb"
         /\ state' = [state EXCEPT ![label] = s]
         /\ ScheduleCompute(label, assign_delay)
         /\ burst' = Min(MaxBurst, burst + 1)

PinEdge ==
    \E label \in pins, s \in PinValues :
        /\ PinCallback(label, s)
        /\ out' = <<>>
        /\ failed' = FALSE
        /\ coalesced' = 0
        /\ status' = None
        /\ KeepDecision
        /\ UNCHANGED <<config, current_tool, pending_tc_ct, tc_timer,
                       print_stats, toolchanger>>

\* _compute_timer_cb that does not read sync_toolchanger
ComputeTimerFire_SyncAlways ==
    \E t \in timers, fail \in BOOLEAN :
        /\ t.cb = "compute" /\ t.rem = 0
        /\ LET r == ComputeCurrentTool(state, t_indices)
               d == RequestToolchangerSync(r.ct, timers \ {t})
           IN /\ compute_timer' = None
              /\ current_tool' = r.ct
              /\ pending_tc_ct' = d.pending
              /\ tc_timer' = d.handle
              /\ timers' = d.timers
              /\ out' = d.out
              /\ failed' = (d.out # <<>> /\ fail)
              /\ last_decision' = NoteDecision(d)
        /\ op' = "compute"
        /\ coalesced' = burst
        /\ burst' = 0
        /\ status' = None
        /\ UNCHANGED <<config, state, pending_reason, print_stats, toolchanger>>

\* _compute_timer_cb that returns a waketime instead of reactor.NEVER: the
\* reactor keeps the timer armed, assign_delay from now
ComputeTimerFire_Periodic ==
    \E t \in timers, fail \in BOOLEAN :
        /\ t.cb = "compute" /\ t.rem = 0
        /\ LET r == ComputeCurrentTool(state, t_indices)
               d == IF sync_toolchanger
                    THEN RequestToolchangerSync(r.ct, timers \ {t})
                    ELSE NoSync(timers \ {t})
           IN /\ compute_timer' = Some(<<"compute", FreeId(d.timers, "compute")>>)
              /\ current_tool' = r.ct
              /\ pending_tc_ct' = d.pending
              /\ tc_timer' = d.handle
              /\ timers' = RegisterTimer(d.timers, "compute", Max(0, assign_delay))
              /\ out' = d.out
              /\ failed' = (d.out # <<>> /\ fail)
              /\ last_decision' = NoteDecision(d)
        /\ op' = "compute"
        /\ coalesced' = burst
        /\ burst' = 0
        /\ status' = None
        /\ UNCHANGED <<config, state, pending_reason, print_stats, toolchanger>>

\* _compute_timer_cb, run by the reactor for a due timer; fail: whether
\* run_script_from_command raises (caught by the callback's except)
ComputeTimerFire ==
    \E t \in timers, fail \in BOOLEAN :
        /\ t.cb = "compute" /\ t.rem = 0
        /\ LET r == ComputeCurrentTool(state, t_indices)
               d == IF sync_toolchanger
                    THEN RequestToolchangerSync(r.ct, timers \ {t})
                    ELSE NoSync(timers \ {t})
           IN /\ compute_timer' = None
              /\ current_tool' = r.ct
              /\ pending_tc_ct' = d.pending
              /\ tc_timer' = d.handle
              /\ timers' = d.timers
              /\ out' = d.out
              /\ failed' = (d.out # <<>> /\ fail)
              /\ last_decision' = NoteDecision(d)
        /\ op' = "compute"
        /\ coalesced' = burst
        /\ burst' = 0
        /\ status' = None
        /\ UNCHANGED <<config, state, pending_reason, print_stats, toolchanger>>

\* _tc_timer_cb, run by the reactor for a due timer
TcTimerFire ==
    \E t \in timers, fail \in BOOLEAN :
        /\ t.cb = "tc" /\ t.rem = 0
        /\ LET d == TcTimerCb(timers \ {t})
           IN /\ pending_tc_ct' = d.pending
              /\ tc_timer' = d.handle
              /\ timers' = d.timers
              /\ out' = d.out
              /\ failed' = (d.out # <<>> /\ fail)
        /\ op' = "retry"
        /\ coalesced' = 0
        /\ status' = None
        /\ KeepDecision
        /\ UNCHANGED <<config, state, current_tool, compute_timer, pending_reason,
                       print_stats, toolchanger, burst>>

\* get_status that infers the tool anew before answering
GetStatus_Recompute ==
    /\ op' = "status"
    /\ current_tool' = ComputeCurrentTool(state, t_indices).ct
    /\ status' = Some(current_tool')
    /\ out' = <<>> /\ failed' = FALSE /\ coalesced' = 0
    /\ KeepDecision
    /\ UNCHANGED <<config, state, compute_timer, pending_reason,
                   pending_tc_ct, tc_timer, timers, print_stats, toolchanger,
                   burst>>

\* get_status, called by a template or a status query: the answer is
\* {"current_tool": int(self.current_tool)}, kept as the integer
GetStatus ==
    /\ op' = "status"
    /\ status' = Some(current_tool)
    /\ out' = <<>> /\ failed' = FALSE /\ coalesced' = 0
    /\ KeepDecision
    /\ UNCHANGED <<config, state, current_tool, compute_timer, pending_reason,
                   pending_tc_ct, tc_timer, timers, print_stats, toolchanger,
                   burst>>

----------------------------------------------------------------------------
(* Environment *)

\* 0.1 s passes
Tick ==
    /\ \E t \in timers : t.rem > 0
    /\ timers' = {[t EXCEPT !.rem = Max(0, t.rem - 1)] : t \in timers}
    /\ EnvStep
    /\ UNCHANGED <<print_stats, toolchanger>>

PrintStates == {"standby", "printing"}
ToolchangerStatuses == {"ready", "changing", "initializing"}

PrintStatsChange ==
    /\ print_stats # "absent"
    /\ \E s \in PrintStates \ {print_stats} : print_stats' = s
    /\ EnvStep
    /\ UNCHANGED <<timers, toolchanger>>

ToolchangerChange ==
    /\ toolchanger # "absent"
    /\ \E s \in ToolchangerStatuses \ {toolchanger} : toolchanger' = s
    /\ EnvStep
    /\ UNCHANGED <<timers, print_stats>>

----------------------------------------------------------------------------
(* Configurations and the state __init__ leaves *)

\* the engagement pin alone, or with bays t0..tk
PinSets == {{<<"e">>} \cup {BayLabel(i) : i \in 0..k} : k \in -1..MaxBay}

\* assign_delay: a negative one (taken as 0.0, the delay __init__ itself asks
\* for) or the longest one
Delays == {-1, MaxDelay}

\* the object after __init__, with snapshot st
Constructed(ps, st, sync, delay, pstats, tc) ==
    /\ pins = ps
    /\ t_indices = TIndices(ps)
    /\ sync_toolchanger = sync
    /\ assign_delay = delay
    /\ state = st
    /\ current_tool = -2
    /\ pending_reason = <<"startup">>
    /\ pending_tc_ct = None
    /\ tc_timer = None
    /\ compute_timer = Some(<<"compute", FreeId({}, "compute")>>)
    /\ timers = RegisterTimer({}, "compute", Max(0, 0))
    /\ print_stats = pstats
    /\ toolchanger = tc
    /\ out = <<>>
    /\ op = "init"
    /\ failed = FALSE
    /\ last_decision = None
    /\ burst = 0
    /\ coalesced = 0
    /\ status = None

\* __init__ with the given options; the providers are there or not
Init ==
    \E ps \in PinSets, sync \in BOOLEAN, delay \in Delays,
       pstats \in {"absent", "standby"}, tc \in {"absent", "ready"} :
        Constructed(ps, [l \in ps |-> 0], sync, delay, pstats, tc)

Next ==
    \/ PinEdge
    \/ ComputeTimerFire
    \/ TcTimerFire
    \/ GetStatus
    \/ Tick
    \/ PrintStatsChange
    \/ ToolchangerChange

Spec == Init /\ [][Next]_vars

\* the reactor and the tool-changer as the claims about deferred commands
\* assume them: time passes, a due retry timer is run, and the tool-changer
\* does not stay busy for ever
Fairness ==
    /\ WF_vars(Tick)
    /\ WF_vars(TcTimerFire)
    /\ <>[](toolchanger \notin {"changing", "initializing"})

\* the largest configuration, sync enabled, both providers there,
\* assign_delay at its default 0.0
InitFair ==
    LET ps == {<<"e">>} \cup {BayLabel(i) : i \in 0..MaxBay}
    IN Constructed(ps, [l \in ps |-> 0], TRUE, 0, "standby", "ready")

SpecFair == InitFair /\ [][Next]_vars /\ Fairness

\* the compute timer is due: exactly when ComputeTimerFire is enabled
ComputeDue == \E t \in timers : t.cb = "compute" /\ t.rem = 0

\* the same with a due compute timer run as well (weak fairness of
\* ComputeTimerFire, its enabling condition written out) and the buttons
\* module falling silent: from some point on no pin callback is called
FairnessQuiet ==
    /\ Fairness
    /\ []<>(~ComputeDue) \/ []<><<ComputeTimerFire>>_vars
    /\ <>[](op \notin {"cb", "cb_dup"})

SpecQuiet == InitFair /\ [][Next]_vars /\ FairnessQuiet

----------------------------------------------------------------------------
(* The inference function on its own: any configuration of the labels      *)
(* below, any snapshot the callbacks may have left, one inference pass.    *)

\* highest bay among the labels written "t%d"
MaxInferBay == 1

\* the engagement pin, the bays written "t%d", and labels int() reads in its
\* other ways: bay 2 written with a leading zero, an underscore and an
\* Arabic-Indic two; bay 1 written after a vertical tab and a no-break
\* space; "t-1" (a negative index); "tx" (no number)
InferLabels ==
    {<<"e">>} \cup {BayLabel(i) : i \in 0..MaxInferBay}
        \cup {<<"t", "0", "_", "U+0662">>, <<"t", "", "U+00A0", "1">>,
              <<"t", "-", "1">>, <<"t", "x">>}

InferValues == {0, 1, 2}

InitInfer ==
    \E ps \in (SUBSET InferLabels) \ {{}} :
        \E st \in [ps -> InferValues] :
            Constructed(ps, st, TRUE, 0, "absent", "absent")

NextInfer == ComputeTimerFire

SpecInfer == InitInfer /\ [][NextInfer]_vars

----------------------------------------------------------------------------
(* Configurations with several bays, for the range of the bay indices:     *)
(* sync enabled, both providers there, assign_delay at its default 0.0.    *)
(* Every handler that writes runs; get_status, which only reads, is left   *)
(* out.                                                                    *)

\* highest bay of these configurations
MaxRangeBay == 1

\* the engagement pin with bays t0..tk, and with a highest bay whose label
\* is no "t%d" ("t01" is bay 1 for int(), but no pass reads its sensor)
RangePinSets ==
    {{<<"e">>} \cup {BayLabel(i) : i \in 0..MaxRangeBay},
     {<<"e">>, BayLabel(0), <<"t", "0">> \o Decimal(MaxRangeBay)}}

InitRange ==
    \E ps \in RangePinSets :
        Constructed(ps, [l \in ps |-> 0], TRUE, 0, "standby", "ready")

NextRange ==
    \/ PinEdge
    \/ ComputeTimerFire
    \/ TcTimerFire
    \/ Tick
    \/ PrintStatsChange
    \/ ToolchangerChange

SpecRange == InitRange /\ [][NextRange]_vars

----------------------------------------------------------------------------
(* Claims *)

ComputeTimers == {t \in timers : t.cb = "compute"}
TcTimers == {t \in timers : t.cb = "tc"}

\* the command the spec gives for an inferred tool
MirrorCmd(ct) == IF ct >= 0 THEN <<"INITIALIZE_TOOLCHANGER T=", ct>>
                 ELSE <<"UNSELECT_TOOL">>

BusyNow == toolchanger \in {"changing", "initializing"}

\* C1: no command is given to gcode in a step in which the tool-changer
\* status is "changing" or "initializing", on the immediate path and on the
\* retry path alike.
C1_NoCommandWhileBusy == out # <<>> => ~BusyNow

\* a retry fire has sent a command that was deferred while busy
C1_Witness == op = "retry" /\ out # <<>> /\ toolchanger = "ready"

\* C2: while print_stats.state is "printing" no UNSELECT_TOOL is emitted,
\* neither by an inference pass nor by a retry fire.
C2_NoUnselectWhilePrinting ==
    print_stats = "printing" => \A k \in 1..Len(out) : out[k] # <<"UNSELECT_TOOL">>

\* C3 (as stated): with sync enabled and not printing, every inference pass
\* with result c is followed by the command that mirrors c.
C3_EveryTransitionEmits ==
    \A c \in -2..MaxBay :
        (op = "compute" /\ sync_toolchanger /\ print_stats # "printing" /\ current_tool = c)
            ~> (out = <<MirrorCmd(c)>>)

\* C3 (amended): with sync enabled and not printing, an inference pass
\* emits the one command that mirrors its result in the same step when the
\* tool-changer is not busy, and emits nothing and leaves its result as the
\* pending target when it is busy; a pending target leads to a retry fire
\* that emits exactly one command and clears it; and a retry fire that emits
\* sends exactly the command for the target that was pending when it fired.
C3_DeferredEventuallySent ==
    /\ [](op = "compute" /\ sync_toolchanger /\ print_stats # "printing"
            => \/ ~BusyNow /\ out = <<MirrorCmd(current_tool)>>
               \/ BusyNow /\ out = <<>> /\ pending_tc_ct = Some(current_tool))
    /\ (pending_tc_ct # None)
           ~> (op = "retry" /\ Len(out) = 1 /\ pending_tc_ct = None)
    /\ [][(op' = "retry" /\ out' # <<>>)
             => /\ pending_tc_ct # None
                /\ out' = <<MirrorCmd(Val(pending_tc_ct))>>
                /\ pending_tc_ct' = None]_vars

\* an unselect decided while busy has been sent by a retry fire, not printing
C3_Witness ==
    op = "retry" /\ out = <<MirrorCmd(-1)>> /\ print_stats = "standby"
        /\ current_tool < 0

\* C4 (as stated): a retry fire that finds the tool-changer not busy sends
\* exactly one command, leaves nothing pending and no retry timer armed,
\* and the command is the one for the target of the most recent dispatch
\* decision, whether that decision was deferred or sent at once.
C4_RetrySendsNewest ==
    (op = "retry" /\ ~BusyNow) =>
        /\ Len(out) = 1
        /\ pending_tc_ct = None /\ tc_timer = None /\ TcTimers = {}
        /\ last_decision # None
        /\ out[1] = MirrorCmd(Val(last_decision).ct)

\* C5: a pending target is the target of the newest dispatch decision,
\* deferred or sent at once.
C5_PendingIsNewestDecision ==
    pending_tc_ct # None =>
        last_decision # None /\ Val(last_decision).ct = Val(pending_tc_ct)

\* C6: the edges of a burst leave exactly one armed compute timer; the pass
\* it runs stores the inference of the snapshot as it stands, answers every
\* edge of the burst and leaves no compute timer armed.
C6_Coalescing ==
    /\ burst > 0 => Cardinality(ComputeTimers) = 1 /\ compute_timer # None
    /\ op = "compute" =>
          /\ current_tool = ComputeCurrentTool(state, t_indices).ct
          /\ burst = 0
          /\ ComputeTimers = {} /\ compute_timer = None

\* one pass has answered a burst of several edges
C6_Witness == op = "compute" /\ coalesced >= 2 /\ current_tool >= 0

\* C7: a callback that delivers the value already stored changes nothing
\* and emits nothing.
C7_DuplicateEdgeIsNoOp ==
    [][(op' \in {"cb", "cb_dup"} /\ state' = state)
          => /\ UNCHANGED <<timers, compute_timer, pending_reason, current_tool,
                            pending_tc_ct, tc_timer>>
             /\ out' = <<>>]_vars

\* a duplicate was delivered after the pass had run, and armed nothing
C7_Witness == op = "cb_dup" /\ compute_timer = None /\ ComputeTimers = {}

\* C8: _compute_current_tool agrees with the decision table.
C8_InferenceTable ==
    LET N == ToolCount(TIndices(pins))
        ct == ComputeCurrentTool(state, t_indices).ct
        ex == Get(state, <<"e">>)
        occ(i) == Get(state, BayLabel(i))
        valid == ex \in {0, 1} /\ \A i \in 0..(N - 1) : occ(i) \in {0, 1}
        unmounted == N >= 1 /\ valid /\ ex = 0 /\ \A i \in 0..(N - 1) : occ(i) = 1
        mounted(i) == /\ N >= 1 /\ valid /\ ex = 1 /\ occ(i) = 0
                      /\ \A j \in (0..(N - 1)) \ {i} : occ(j) = 1
    IN /\ ct \in {-2, -1} \cup 0..(N - 1)
       /\ ct = -1 <=> unmounted
       /\ \A i \in 0..(N - 1) : ct = i <=> mounted(i)
       /\ ct = -2 <=> (~unmounted /\ \A i \in 0..(N - 1) : ~mounted(i))
       /\ op = "compute" => current_tool = ct

\* a pass has inferred bay 2 of three, which no label written "t2" names:
\* the tool count comes from a label int() reads as 2
C8_Witness ==
    /\ op = "compute" /\ current_tool = 2
    /\ ToolCount(TIndices(pins)) = 3 /\ BayLabel(2) \notin pins

\* C9: with sync enabled, not printing and the tool-changer not busy, an
\* inference pass emits exactly the command that mirrors its result; no step
\* emits more than one command.
C9_NotPrintingMirrors ==
    /\ Len(out) <= 1
    /\ (op = "compute" /\ sync_toolchanger /\ print_stats # "printing" /\ ~BusyNow)
           => out = <<MirrorCmd(current_tool)>>

\* a pass with result Unknown has emitted UNSELECT_TOOL
C9_Witness ==
    /\ op = "compute" /\ sync_toolchanger /\ print_stats = "standby"
    /\ toolchanger = "ready" /\ current_tool = -2 /\ out = <<MirrorCmd(-2)>>

\* C10: at most one compute timer and at most one retry timer are armed.
C10_TimersNeverStack ==
    Cardinality(ComputeTimers) <= 1 /\ Cardinality(TcTimers) <= 1

\* both timers are armed, the compute timer re-armed by a second edge
C10_Witness ==
    Cardinality(ComputeTimers) = 1 /\ Cardinality(TcTimers) = 1 /\ burst >= 2

\* C11: get_status answers with the cached current_tool, changes nothing and
\* emits nothing; current_tool changes in inference passes only.
C11_StatusIsPassive ==
    [][/\ op' = "status"
            => /\ status' = Some(current_tool)
               /\ out' = <<>>
               /\ UNCHANGED <<state, current_tool, timers, compute_timer,
                              pending_reason, pending_tc_ct, tc_timer>>
       /\ current_tool' # current_tool => op' = "compute"]_vars

\* get_status has answered with a cached tool that the snapshot no longer
\* gives, the recomputation still to come
C11_Witness ==
    /\ op = "status" /\ status = Some(current_tool)
    /\ current_tool # ComputeCurrentTool(state, t_indices).ct
    /\ ComputeTimers # {}

\* C12: with sync_toolchanger off no step emits a command, no target is
\* pending and no retry timer is armed, while an inference pass stores the
\* inferred tool as ever.
C12_SyncDisabledIsSilent ==
    ~sync_toolchanger =>
        /\ out = <<>>
        /\ pending_tc_ct = None /\ tc_timer = None /\ TcTimers = {}
        /\ op = "compute" => current_tool = ComputeCurrentTool(state, t_indices).ct

\* with sync off a pass has inferred a mounted tool while the tool-changer
\* was busy and nobody printing
C12_Witness ==
    /\ ~sync_toolchanger /\ op = "compute" /\ current_tool >= 0
    /\ BusyNow /\ print_stats = "standby"

\* C13: without a tool-changer object nothing is ever deferred and every
\* dispatch decision is emitted in the pass that makes it; without a
\* print_stats object every pass is mirrored in full, at once or, the
\* tool-changer busy, as the pending target.
C13_MissingProvidersProceed ==
    /\ toolchanger = "absent" =>
          /\ pending_tc_ct = None /\ tc_timer = None /\ TcTimers = {}
          /\ (op = "compute" /\ sync_toolchanger
                 /\ (print_stats # "printing" \/ current_tool >= 0))
                => out = <<MirrorCmd(current_tool)>>
    /\ (print_stats = "absent" /\ op = "compute" /\ sync_toolchanger) =>
          IF BusyNow THEN out = <<>> /\ pending_tc_ct = Some(current_tool)
          ELSE out = <<MirrorCmd(current_tool)>>

\* with neither provider there a pass has inferred Unmounted and emitted
\* UNSELECT_TOOL
C13_Witness ==
    /\ toolchanger = "absent" /\ print_stats = "absent"
    /\ op = "compute" /\ current_tool = -1 /\ out = <<MirrorCmd(-1)>>

\* C14: a retry fire in which run_script_from_command raises leaves the
\* pending target set.
C14_FailedRetryKeepsPending ==
    (op = "retry" /\ failed) => pending_tc_ct # None

\* C15: a retry fire that finds the tool-changer busy emits nothing, leaves
\* the pending target, current_tool, the snapshot and the compute timer as
\* they were, and arms the one retry timer anew, RetryTicks from now.
C15_BusyPollOnlyRearms ==
    [][(op' = "retry" /\ BusyNow')
          => /\ out' = <<>>
             /\ UNCHANGED <<state, current_tool, pending_tc_ct, compute_timer,
                            pending_reason, ComputeTimers>>
             /\ pending_tc_ct # None
             /\ tc_timer' # None
             /\ \E t \in timers' :
                    /\ TcTimers' = {t}
                    /\ t.rem = RetryTicks
                    /\ tc_timer' = Some(<<t.cb, t.id>>)]_vars

\* a retry fire has found the tool-changer busy and armed the timer again
C15_Witness ==
    /\ op = "retry" /\ BusyNow /\ out = <<>>
    /\ pending_tc_ct # None /\ Cardinality(TcTimers) = 1

\* the startup pass is still to come: the timer armed by __init__ has not
\* fired and no edge has taken its place
StartupOwed == pending_reason = <<"startup">> /\ ComputeTimers # {}

\* C16: the compute timer is single-shot.  A pass leaves no compute timer
\* armed; a compute timer gets armed in a value-changing callback only; and
\* every pass answers the startup request or at least one value-changing
\* edge that no earlier pass has answered, so there are at most one plus
\* the number of such edges passes.
C16_SingleShot ==
    /\ [](/\ op = "compute" =>
                /\ ComputeTimers = {} /\ compute_timer = None /\ burst = 0
                /\ coalesced >= 1 \/ pending_reason = <<"startup">>
          /\ ComputeTimers # {} => burst >= 1 \/ pending_reason = <<"startup">>
          /\ (pending_reason = <<"startup">> /\ ComputeTimers = {}) => burst = 0)
    /\ [][/\ (ComputeTimers = {} /\ ComputeTimers' # {})
                => op' = "cb" /\ state' # state
          /\ op' = "compute" => burst >= 1 \/ StartupOwed
          /\ burst' > burst => op' = "cb" /\ state' # state]_vars

\* a pass has answered one edge, after the startup pass: the timer is gone
C16_Witness ==
    /\ op = "compute" /\ coalesced = 1 /\ pending_reason # <<"startup">>
    /\ ComputeTimers = {} /\ compute_timer = None

\* C17: between steps a target is pending exactly when a retry timer is
\* armed, and _tc_timer holds exactly that timer; a retry fire never finds
\* the pending target unset (it sends a command or leaves a target pending).
C17_PendingIffRetryArmed ==
    /\ pending_tc_ct # None <=> TcTimers # {}
    /\ tc_timer # None <=> TcTimers # {}
    /\ \A t \in TcTimers : tc_timer = Some(<<t.cb, t.id>>)
    /\ op = "retry" => out # <<>> \/ pending_tc_ct # None

\* a target is pending with its retry timer armed after a command for a
\* newer decision has gone out at once
C17_Witness ==
    /\ op = "compute" /\ out # <<>>
    /\ pending_tc_ct # None /\ TcTimers # {} /\ tc_timer # None

\* C18: whenever no compute timer is armed (the startup pass has run by
\* then), current_tool is the inference of the snapshot as it stands; a
\* snapshot that current_tool does not reflect has a compute timer armed.
C18_QuiescentStatusIsCurrent ==
    /\ ComputeTimers = {} => current_tool = ComputeCurrentTool(state, t_indices).ct
    /\ compute_timer = None <=> ComputeTimers = {}

\* passes and edges have come and gone: no compute timer is armed and the
\* mounted tool that current_tool names is what the snapshot gives
C18_Witness ==
    /\ ComputeTimers = {} /\ op = "env" /\ current_tool >= 0
    /\ current_tool = ComputeCurrentTool(state, t_indices).ct
    /\ pending_reason # <<"startup">>

\* C19: current_tool and a pending target are -2, -1 or a bay index below
\* the tool count N, and every command emitted is UNSELECT_TOOL or
\* INITIALIZE_TOOLCHANGER T=n with 0 <= n < N.
C19_RangeInvariant ==
    LET N == ToolCount(TIndices(pins))
        R == {-2, -1} \cup 0..(N - 1)
    IN /\ current_tool \in R
       /\ pending_tc_ct # None => Val(pending_tc_ct) \in R
       /\ \A k \in 1..Len(out) :
             \/ out[k] = <<"UNSELECT_TOOL">>
             \/ \E n \in 0..(N - 1) : out[k] = <<"INITIALIZE_TOOLCHANGER T=", n>>

\* the highest of several bays has been inferred while busy, kept as the
\* pending target and sent by a retry fire
C19_Witness ==
    LET N == ToolCount(TIndices(pins))
    IN /\ op = "retry" /\ N >= 2
       /\ current_tool = N - 1
       /\ out = <<<<"INITIALIZE_TOOLCHANGER T=", N - 1>>>>

\* no compute timer, no retry timer, no pending target
Quiet ==
    /\ ComputeTimers = {} /\ compute_timer = None
    /\ TcTimers = {} /\ tc_timer = None
    /\ pending_tc_ct = None

\* C20: once the pin callbacks have stopped, with due timers run and the
\* tool-changer not busy for ever, the system comes to stay in a state with
\* no timer armed and no target pending, and no step taken from there
\* emits a command.
C20_Quiescence ==
    /\ <>[]Quiet
    /\ [][Quiet => out' = <<>>]_vars

\* all is quiet after a retry fire has sent the last command
C20_Witness == Quiet /\ op = "retry" /\ out # <<>>

=============================================================================
